---- MODULE Spec2Model ----
(***************************************************************************)
(* Model of the outlet discount calculator (src/tailwind.config.js):       *)
(* the pricing engine, the memoized derivations of the React component,    *)
(* the history list and the Supabase table outlet_history behind it.       *)
(*                                                                         *)
(* JavaScript numbers are kept in thousandths (fixed point), so that       *)
(* percentages, the 10% tax and the 0.956 Kream rate are exact on the      *)
(* values the model draws; undefined and NaN are values of their own.      *)
(* Text is a sequence of one-character strings.                            *)
(***************************************************************************)
EXTENDS Integers, Sequences, FiniteSets, TLC

VARIABLES
    basePrice,            \* useState<number>()            : a JS value
    discountMode,         \* useState<DiscountMode>        : "amount" | "percent"
    baseDiscountAmount,   \* useState<number>()
    baseDiscountPercent,  \* useState<number>()
    extra,                \* useState<number>()
    memo,                 \* useState<string>("")          : text
    history,              \* useState<HistoryItem[]>([])   : sequence of items
    kreamPrice,           \* useState<number | undefined>
    poizonPrice,          \* useState<number | undefined>
    loadingHistory,       \* useState<boolean>(false)
    kreamPriceInput,      \* useState<string>("")          : text
    poizonPriceInput,     \* useState<string>("")          : text
    hooks,                \* the six useMemo cells: [deps, value]
    mounted,              \* whether the initial-load effect has run
    alertMsg,             \* the window.alert raised by the last handler ("" if none)
    nextId,               \* source of fresh ids (crypto.randomUUID)
    supabase,             \* TRUE iff both environment values are set (client non-null)
    table,                \* rows of the remote table outlet_history
    calls                 \* the store calls issued so far, each a promise

inputVars == <<basePrice, discountMode, baseDiscountAmount, baseDiscountPercent,
               extra, kreamPrice, poizonPrice, kreamPriceInput, poizonPriceInput>>
storeVars == <<supabase, table, calls>>
vars == <<basePrice, discountMode, baseDiscountAmount, baseDiscountPercent, extra,
          memo, history, kreamPrice, poizonPrice, loadingHistory, kreamPriceInput,
          poizonPriceInput, hooks, mounted, alertMsg, nextId, supabase, table, calls>>

-----------------------------------------------------------------------------
(* JavaScript values *)

Milli == 1000

\* a number is v thousandths of 10^exp; exp is 0 except for the numbers of
\* 1e21 and above (1e21 is v = 1000, exp = 21), whose doubles the model
\* follows only where the operations below are exact or absorb the operand
undefined == [t |-> "undefined", v |-> 0, exp |-> 0]
NaN == [t |-> "NaN", v |-> 0, exp |-> 0]
Num(n) == [t |-> "number", v |-> n, exp |-> 0]
Won(w) == Num(w * Milli)
Sci(m, k) == [t |-> "number", v |-> m, exp |-> IF m = 0 THEN 0 ELSE k]

IsNum(x) == x.t = "number"
\* isNaN(x): ToNumber(undefined) is NaN
isNaN(x) == x.t # "number"

\* a ?? b
Nullish(a, b) == IF a = undefined THEN b ELSE a

\* a double of 2^69 (5.9e20) and above has an ulp of at least 131,072: adding
\* or subtracting less than 65,536 leaves it as it is
Absorbs(a, b) ==
    /\ a.exp >= 21 /\ (a.v >= 591 \/ a.v <= -591)
    /\ b.exp = 0 /\ b.v < 65536 * Milli /\ b.v > -65536 * Milli
Sub(a, b) ==
    IF IsNum(a) /\ IsNum(b)
    THEN CASE a.exp = b.exp -> Sci(a.v - b.v, a.exp)
           [] a.exp # b.exp /\ Absorbs(a, b) -> a
           [] a.exp # b.exp /\ Absorbs(b, a) -> Sci(-b.v, b.exp)
    ELSE NaN
Add(a, b) ==
    IF IsNum(a) /\ IsNum(b)
    THEN CASE a.exp = b.exp -> Sci(a.v + b.v, a.exp)
           [] a.exp # b.exp /\ Absorbs(a, b) -> a
           [] a.exp # b.exp /\ Absorbs(b, a) -> b
    ELSE NaN
\* a * b, b the (small) factor
Mul(a, b) ==
    IF IsNum(a) /\ IsNum(b)
    THEN Sci((a.v \div Milli) * b.v + ((a.v % Milli) * b.v) \div Milli, a.exp)
    ELSE NaN
\* a / 100
Div100(a) == IF IsNum(a) THEN Sci(a.v \div 100, a.exp) ELSE NaN
\* a < b on numbers
Lt(a, b) ==
    IF a.exp = b.exp THEN a.v < b.v ELSE IF a.exp > b.exp THEN a.v < 0 ELSE b.v > 0
MathMax(a, b) ==
    IF IsNum(a) /\ IsNum(b) THEN (IF Lt(a, b) THEN b ELSE a) ELSE NaN
MathMin(a, b) ==
    IF IsNum(a) /\ IsNum(b) THEN (IF Lt(b, a) THEN b ELSE a) ELSE NaN
\* Math.round: to the nearest integer, halves upwards
MathRound(a) ==
    IF IsNum(a)
    THEN (IF a.exp = 0 THEN Num(((a.v + Milli \div 2) \div Milli) * Milli) ELSE a)
    ELSE NaN
\* a <= b, a >= b: false when either side is NaN
Le(a, b) == IsNum(a) /\ IsNum(b) /\ ~Lt(b, a)
Ge(a, b) == IsNum(a) /\ IsNum(b) /\ ~Lt(a, b)
\* a || b on numbers: 0 and NaN are falsy
OrElse(a, b) == IF IsNum(a) /\ a.v # 0 THEN a ELSE b

-----------------------------------------------------------------------------
(* Text *)

Digit == {"0", "1", "2", "3", "4", "5", "6", "7", "8", "9"}
DigitVal(c) ==
    CASE c = "0" -> 0 [] c = "1" -> 1 [] c = "2" -> 2 [] c = "3" -> 3 [] c = "4" -> 4
      [] c = "5" -> 5 [] c = "6" -> 6 [] c = "7" -> 7 [] c = "8" -> 8 [] c = "9" -> 9
DigitChar(d) ==
    CASE d = 0 -> "0" [] d = 1 -> "1" [] d = 2 -> "2" [] d = 3 -> "3" [] d = 4 -> "4"
      [] d = 5 -> "5" [] d = 6 -> "6" [] d = 7 -> "7" [] d = 8 -> "8" [] d = 9 -> "9"

\* value.replace(/[^0-9]/g, "")
RECURSIVE OnlyDigits(_)
OnlyDigits(s) ==
    IF s = <<>> THEN <<>>
    ELSE (IF Head(s) \in Digit THEN <<Head(s)>> ELSE <<>>) \o OnlyDigits(Tail(s))

\* the value of a run of digits
RECURSIVE DigitsToNat(_)
DigitsToNat(s) ==
    IF s = <<>> THEN 0
    ELSE DigitsToNat(SubSeq(s, 1, Len(s) - 1)) * 10 + DigitVal(s[Len(s)])

\* decimal digits of a natural number
RECURSIVE NatToDigits(_)
NatToDigits(n) ==
    IF n < 10 THEN <<DigitChar(n)>>
    ELSE NatToDigits(n \div 10) \o <<DigitChar(n % 10)>>

\* thousands grouping of a run of digits
RECURSIVE Group(_)
Group(s) ==
    IF Len(s) <= 3 THEN s
    ELSE Group(SubSeq(s, 1, Len(s) - 3)) \o <<",">> \o SubSeq(s, Len(s) - 2, Len(s))

RECURSIVE Zeros(_)
Zeros(k) == IF k <= 0 THEN <<>> ELSE <<"0">> \o Zeros(k - 1)
RECURSIVE StripLeadingZeros(_)
StripLeadingZeros(s) ==
    IF Len(s) > 1 /\ Head(s) = "0" THEN StripLeadingZeros(Tail(s)) ELSE s
RECURSIVE StripTrailingZeros(_)
StripTrailingZeros(s) ==
    IF Len(s) > 1 /\ s[Len(s)] = "0" THEN StripTrailingZeros(SubSeq(s, 1, Len(s) - 1))
    ELSE s

\* Number(digits) for a non-empty run of digits: exact up to seven digits and
\* for four digits followed by eighteen or more zeros (no other run is drawn)
Number(digits) ==
    LET sig == StripLeadingZeros(digits)
    IN  CASE Len(sig) <= 7 -> Won(DigitsToNat(sig))
          [] /\ Len(sig) >= 22
             /\ \A i \in 5..Len(sig) : sig[i] = "0" ->
                 Sci(DigitsToNat(SubSeq(sig, 1, 4)), Len(sig) - 1)

\* the decimal digits of a non-negative integer
IntDigits(x) ==
    IF x.exp = 0 THEN NatToDigits(x.v \div Milli)
    ELSE NatToDigits(x.v) \o Zeros(x.exp - 3)

\* String(x) for a non-negative integer x: decimal digits below 1e21,
\* exponent notation from 1e21 on
String(x) ==
    IF x.exp < 21 THEN IntDigits(x)
    ELSE LET m == StripTrailingZeros(NatToDigits(x.v))
         IN  <<Head(m)>> \o (IF Len(m) > 1 THEN <<".">> \o Tail(m) ELSE <<>>)
                 \o <<"e", "+">> \o NatToDigits(x.exp)

\* new Intl.NumberFormat("ko-KR").format(x) for an integer x
IntlFormat(x) ==
    IF x.v < 0 THEN <<"-">> \o Group(IntDigits(Sci(-x.v, x.exp)))
    ELSE Group(IntDigits(x))

IsSpace(c) == c \in {" ", "\t", "\n"}
\* String.prototype.trim
RECURSIVE TrimStart(_)
TrimStart(s) == IF s # <<>> /\ IsSpace(Head(s)) THEN TrimStart(Tail(s)) ELSE s
RECURSIVE TrimEnd(_)
TrimEnd(s) ==
    IF s # <<>> /\ IsSpace(s[Len(s)]) THEN TrimEnd(SubSeq(s, 1, Len(s) - 1)) ELSE s
\* the label taken as typed, whitespace kept
trim_Untrimmed(s) == s
trim(s) == TrimEnd(TrimStart(s))

-----------------------------------------------------------------------------
(* Platform-independent utilities *)

\* the lower limit forgotten
clamp_NoLower(n, min, max) == MathMin(max, n)
clamp(n, min, max) == MathMin(max, MathMax(min, n))

\* "won" stands for the one-character currency suffix of the source
toKrw(n) ==
    IF isNaN(n) THEN <<"-">> ELSE IntlFormat(MathRound(n)) \o <<"won">>
krw(n) == toKrw(n)

step2AfterFirstDiscount(bp, mode, amount, percent) ==
    IF mode = "amount"
    THEN LET amt == clamp(Nullish(amount, Won(0)), Won(0), bp)
         IN  MathMax(Won(0), Sub(bp, amt))
    ELSE LET p == clamp(Nullish(percent, Won(0)), Won(0), Won(100))
         IN  Mul(bp, Sub(Won(1), Div100(p)))

\* the extra percent applied as typed, not clamped
applyExtraPercent_NoClamp(price, extraPercent) ==
    Mul(price, Sub(Won(1), Div100(extraPercent)))
applyExtraPercent(price, extraPercent) ==
    Mul(price, Sub(Won(1), Div100(clamp(extraPercent, Won(0), Won(100)))))
simpleRefund10(final) == Mul(final, Num(100))

\* the fixed 5,500 part of the Kream fee forgotten
kreamNetFromPrice_NoFixedFee(price) ==
    IF price = undefined THEN undefined ELSE Mul(price, Num(956))
kreamNetFromPrice(price) ==
    IF price = undefined THEN undefined ELSE Sub(Mul(price, Num(956)), Won(5500))
kreamFeeFromPrice(price, net) ==
    IF price # undefined /\ net # undefined THEN Sub(price, net) ELSE undefined
\* the flat 15,000 fee taken at every price
poizonNetFromPrice_FlatFee(price) ==
    IF price = undefined THEN undefined ELSE Sub(price, Won(15000))
poizonNetFromPrice(price) ==
    IF price = undefined THEN undefined
    ELSE IF Le(price, Won(150000)) THEN Sub(price, Won(15000))
    ELSE IF Ge(price, Won(450000)) THEN Sub(price, Won(45000))
    ELSE Mul(price, Num(900))
poizonFeeFromPrice(price, net) ==
    IF price # undefined /\ net # undefined THEN Sub(price, net) ELSE undefined

formatNumberInput(value) ==
    LET digits == OnlyDigits(value)
    IN  IF digits = <<>> THEN <<>> ELSE IntlFormat(Number(digits))
parseNumberInput(value) ==
    LET digits == OnlyDigits(value)
    IN  IF digits # <<>> THEN Number(digits) ELSE undefined

-----------------------------------------------------------------------------
(* The component's derivations (useMemo) *)

\* useMemo: the cell keeps its value while its dependencies are the same
useMemo(cell, deps, value) ==
    IF cell.deps = deps THEN cell ELSE [deps |-> deps, value |-> value]

\* the discount mode left out of the dependency list
step2Deps_NoMode(bp, dm, amt, pct) == <<bp, amt, pct>>
step2Deps(bp, dm, amt, pct) == <<bp, dm, amt, pct>>
finalDeps(s2, ex) == <<s2, ex>>
kreamNetDeps(kp) == <<kp>>
kreamFeeDeps(kp, kn) == <<kp, kn>>
poizonNetDeps(pp) == <<pp>>
poizonFeeDeps(pp, pn) == <<pp, pn>>

\* one render of the component over the given state, from the previous cells
Render(h, bp, dm, amt, pct, ex, kp, pp) ==
    LET s2 == useMemo(h.step2, step2Deps(bp, dm, amt, pct),
                      step2AfterFirstDiscount(bp, dm, amt, pct))
        fin == useMemo(h.final, finalDeps(s2.value, ex),
                       applyExtraPercent(s2.value, ex))
        kn == useMemo(h.kreamNet, kreamNetDeps(kp), kreamNetFromPrice(kp))
        kf == useMemo(h.kreamFee, kreamFeeDeps(kp, kn.value),
                      kreamFeeFromPrice(kp, kn.value))
        pn == useMemo(h.poizonNet, poizonNetDeps(pp), poizonNetFromPrice(pp))
        pf == useMemo(h.poizonFee, poizonFeeDeps(pp, pn.value),
                      poizonFeeFromPrice(pp, pn.value))
    IN  [step2 |-> s2, final |-> fin, kreamNet |-> kn, kreamFee |-> kf,
         poizonNet |-> pn, poizonFee |-> pf]

\* the cells before the first render: nothing cached
NoCell == [deps |-> <<>>, value |-> undefined]
NoHooks == [step2 |-> NoCell, final |-> NoCell, kreamNet |-> NoCell,
            kreamFee |-> NoCell, poizonNet |-> NoCell, poizonFee |-> NoCell]

\* the values the current render closure holds
step1 == basePrice
step2 == hooks.step2.value
final == hooks.final.value
refund10 == simpleRefund10(final)
afterRefund10 == MathMax(Won(0), Sub(final, refund10))
kreamNet == hooks.kreamNet.value
kreamFee == hooks.kreamFee.value
poizonNet == hooks.poizonNet.value
poizonFee == hooks.poizonFee.value

\* every state change re-renders the component
Rerender ==
    hooks' = Render(hooks, basePrice', discountMode', baseDiscountAmount',
                    baseDiscountPercent', extra', kreamPrice', poizonPrice')

-----------------------------------------------------------------------------
(* Construction *)

\* a row an earlier session left in the table
OldRow ==
    [id |-> 0, memo |-> <<"o">>, base_price |-> Won(50000), discount_mode |-> "amount",
     base_discount_amount |-> Won(0), base_discount_percent |-> [t |-> "null", v |-> 0, exp |-> 0],
     extra |-> Won(0), final |-> Won(50000), refund10 |-> Won(5000),
     kream_price |-> [t |-> "null", v |-> 0, exp |-> 0], kream_net |-> [t |-> "null", v |-> 0, exp |-> 0],
     poizon_price |-> [t |-> "null", v |-> 0, exp |-> 0], poizon_net |-> [t |-> "null", v |-> 0, exp |-> 0],
     created_at |-> 0]

Init ==
    /\ basePrice = undefined
    /\ discountMode = "amount"
    /\ baseDiscountAmount = undefined
    /\ baseDiscountPercent = undefined
    /\ extra = undefined
    /\ memo = <<>>
    /\ history = <<>>
    /\ kreamPrice = undefined
    /\ poizonPrice = undefined
    /\ loadingHistory = FALSE
    /\ kreamPriceInput = <<>>
    /\ poizonPriceInput = <<>>
    /\ hooks = Render(NoHooks, undefined, "amount", undefined, undefined, undefined,
                      undefined, undefined)
    /\ mounted = FALSE
    /\ alertMsg = ""
    /\ nextId = 1
    /\ supabase \in BOOLEAN
    /\ table \in SUBSET {OldRow}
    /\ calls = {}

-----------------------------------------------------------------------------
(* Handlers of the input card *)

InitialLoad ==
    /\ ~mounted
    /\ mounted' = TRUE
    /\ loadingHistory' = FALSE
    /\ alertMsg' = ""
    /\ UNCHANGED <<inputVars, memo, history, nextId, storeVars>>
    /\ Rerender

SetBasePrice(v) ==
    /\ mounted
    /\ basePrice' = v
    /\ alertMsg' = ""
    /\ UNCHANGED <<discountMode, baseDiscountAmount, baseDiscountPercent, extra, memo,
                   history, kreamPrice, poizonPrice, loadingHistory, kreamPriceInput,
                   poizonPriceInput, mounted, nextId, storeVars>>
    /\ Rerender

SetDiscountMode(m) ==
    /\ mounted
    /\ discountMode' = m
    /\ alertMsg' = ""
    /\ UNCHANGED <<basePrice, baseDiscountAmount, baseDiscountPercent, extra, memo,
                   history, kreamPrice, poizonPrice, loadingHistory, kreamPriceInput,
                   poizonPriceInput, mounted, nextId, storeVars>>
    /\ Rerender

SetBaseDiscountAmount(v) ==
    /\ mounted
    /\ discountMode = "amount"
    /\ baseDiscountAmount' = v
    /\ alertMsg' = ""
    /\ UNCHANGED <<basePrice, discountMode, baseDiscountPercent, extra, memo,
                   history, kreamPrice, poizonPrice, loadingHistory, kreamPriceInput,
                   poizonPriceInput, mounted, nextId, storeVars>>
    /\ Rerender

SetBaseDiscountPercent(v) ==
    /\ mounted
    /\ discountMode = "percent"
    /\ baseDiscountPercent' = v
    /\ alertMsg' = ""
    /\ UNCHANGED <<basePrice, discountMode, baseDiscountAmount, extra, memo,
                   history, kreamPrice, poizonPrice, loadingHistory, kreamPriceInput,
                   poizonPriceInput, mounted, nextId, storeVars>>
    /\ Rerender

SetExtra(v) ==
    /\ mounted
    /\ extra' = v
    /\ alertMsg' = ""
    /\ UNCHANGED <<basePrice, discountMode, baseDiscountAmount, baseDiscountPercent,
                   memo, history, kreamPrice, poizonPrice, loadingHistory,
                   kreamPriceInput, poizonPriceInput, mounted, nextId, storeVars>>
    /\ Rerender

SetMemo(text) ==
    /\ mounted
    /\ memo' = text
    /\ alertMsg' = ""
    /\ UNCHANGED <<inputVars, history, loadingHistory, mounted, nextId, storeVars>>
    /\ Rerender

PoizonPriceChange(text) ==
    /\ mounted
    /\ LET formatted == formatNumberInput(text)
       IN  /\ poizonPriceInput' = formatted
           /\ poizonPrice' = parseNumberInput(formatted)
    /\ alertMsg' = ""
    /\ UNCHANGED <<basePrice, discountMode, baseDiscountAmount, baseDiscountPercent,
                   extra, memo, history, kreamPrice, loadingHistory, kreamPriceInput,
                   mounted, nextId, storeVars>>
    /\ Rerender

KreamPriceChange(text) ==
    /\ mounted
    /\ LET formatted == formatNumberInput(text)
       IN  /\ kreamPriceInput' = formatted
           /\ kreamPrice' = parseNumberInput(formatted)
    /\ alertMsg' = ""
    /\ UNCHANGED <<basePrice, discountMode, baseDiscountAmount, baseDiscountPercent,
                   extra, memo, history, poizonPrice, loadingHistory, poizonPriceInput,
                   mounted, nextId, storeVars>>
    /\ Rerender

-----------------------------------------------------------------------------
(* The pricing specification: the inputs are edited, nothing is saved *)

BasePrices == {Won(0), Won(100000)}
Amounts == {Won(-5000), Won(20000), Won(150000)}
Percents == {Won(-10), Won(10), Won(120)}
Extras == {Won(-10), Won(0), Won(10), Won(120)}
PoizonTexts == {<<>>, <<"0">>, <<"6", "6", "0", "0", "0">>,
                <<"1", "5", "0", ",", "0", "0", "0">>,
                <<"3", "0", "0", "0", "0", "0">>,
                <<"4", "5", "0", "0", "0", "0", "a">>,
                <<"5", "0", "0", "0", "0", "0">>}
KreamTexts == {<<>>, <<"0">>, <<"6", "5", ",", "0", "0", "0">>}

NextPricing ==
    \/ InitialLoad
    \/ \E v \in BasePrices : SetBasePrice(v)
    \/ \E m \in {"amount", "percent"} : SetDiscountMode(m)
    \/ \E v \in Amounts : SetBaseDiscountAmount(v)
    \/ \E v \in Percents : SetBaseDiscountPercent(v)
    \/ \E v \in Extras : SetExtra(v)
    \/ \E s \in PoizonTexts : PoizonPriceChange(s)
    \/ \E s \in KreamTexts : KreamPriceChange(s)

SpecPricing == Init /\ [][NextPricing]_vars

-----------------------------------------------------------------------------
(* History items and the rows of the table outlet_history *)

null == [t |-> "null", v |-> 0, exp |-> 0]
\* the item's id list
Ids(h) == {h[i].id : i \in DOMAIN h}
RowIds(rows) == {r.id : r \in rows}

\* the insert payload of dbInsertHistory
InsertRow(item) ==
    [id |-> item.id,
     memo |-> Nullish(item.memo, null),
     base_price |-> item.basePrice,
     discount_mode |-> item.discountMode,
     base_discount_amount |-> Nullish(item.baseDiscountAmount, null),
     base_discount_percent |-> Nullish(item.baseDiscountPercent, null),
     extra |-> item.extra,
     final |-> item.final,
     refund10 |-> item.refund10,
     kream_price |-> Nullish(item.kreamPrice, null),
     kream_net |-> Nullish(item.kreamNet, null),
     poizon_price |-> Nullish(item.poizonPrice, null),
     poizon_net |-> Nullish(item.poizonNet, null),
     created_at |-> item.id]

\* r.x ?? undefined
FromNull(x) == IF x = null THEN undefined ELSE x
\* the row mapping of dbFetchHistory
MapRow(r) ==
    [id |-> r.id,
     memo |-> FromNull(r.memo),
     basePrice |-> r.base_price,
     discountMode |-> r.discount_mode,
     baseDiscountAmount |-> FromNull(r.base_discount_amount),
     baseDiscountPercent |-> FromNull(r.base_discount_percent),
     extra |-> r.extra,
     final |-> r.final,
     refund10 |-> r.refund10,
     kreamPrice |-> FromNull(r.kream_price),
     kreamNet |-> FromNull(r.kream_net),
     poizonPrice |-> FromNull(r.poizon_price),
     poizonNet |-> FromNull(r.poizon_net),
     created_at |-> r.created_at]

\* .order("created_at", {ascending: false}): the rows, newest first
RECURSIVE NewestFirst(_)
NewestFirst(rows) ==
    IF rows = {} THEN <<>>
    ELSE LET r == CHOOSE x \in rows : \A y \in rows : y.created_at <= x.created_at
         IN  <<r>> \o NewestFirst(rows \ {r})
Limit(s, n) == SubSeq(s, 1, IF Len(s) < n THEN Len(s) ELSE n)

\* dbFetchHistory(limit) when the select ends in `outcome`
dbFetchHistory(limit, outcome) ==
    IF ~supabase THEN [data |-> <<>>, error |-> "Supabase not configured"]
    ELSE IF outcome = "error" THEN [data |-> <<>>, error |-> "error"]
    ELSE LET rows == Limit(NewestFirst(table), limit)
         IN  [data |-> [i \in DOMAIN rows |-> MapRow(rows[i])], error |-> "null"]

\* a store call and its promise
Call(op, id, row) == [op |-> op, id |-> id, row |-> row, state |-> "pending"]
NoRow == [id |-> 0]
Pending == {c \in calls : c.state = "pending"}

-----------------------------------------------------------------------------
(* Saving, deleting, clearing *)

MaxIds == 2
\* the alert text of saveHistory (in Korean in the source: the item is empty, not saved)
EmptyMemoAlert == "item information is empty: not saved"

newItem ==
    [id |-> nextId,
     basePrice |-> basePrice,
     discountMode |-> discountMode,
     baseDiscountAmount |->
         IF discountMode = "amount"
         THEN clamp(Nullish(baseDiscountAmount, Won(0)), Won(0), basePrice)
         ELSE undefined,
     baseDiscountPercent |->
         IF discountMode = "percent"
         THEN clamp(Nullish(baseDiscountPercent, Won(0)), Won(0), Won(100))
         ELSE undefined,
     extra |-> clamp(extra, Won(0), Won(100)),
     memo |-> trim(memo),
     final |-> final,
     refund10 |-> refund10,
     kreamPrice |-> kreamPrice,
     kreamFee |-> kreamFee,
     kreamNet |-> kreamNet,
     poizonPrice |-> poizonPrice,
     poizonFee |-> poizonFee,
     poizonNet |-> poizonNet]

\* the new item put last
Prepend_Append(item, prev) == prev \o <<item>>
\* the earlier items re-stamped with the current base price
Prepend_Restamp(item, prev) ==
    <<item>> \o [i \in DOMAIN prev |-> [prev[i] EXCEPT !.basePrice = item.basePrice]]
\* setHistory((prev) => [newItem, ...prev])
Prepend(item, prev) == <<item>> \o prev

\* prev.filter((h) => h.id !== id)
RECURSIVE FilterOut(_, _)
FilterOut(prev, id) ==
    IF prev = <<>> THEN <<>>
    ELSE (IF Head(prev).id # id THEN <<Head(prev)>> ELSE <<>>) \o FilterOut(Tail(prev), id)

\* the optimistic insert rolled back
AfterInsertError_Rollback(h, id) == FilterOut(h, id)
\* what the continuation after a failed insert does to the list: a warning only
AfterInsertError(h, id) == h
\* what the continuation after a failed delete does to the list: a warning only
AfterDeleteError(h, id) == h

saveHistory ==
    /\ mounted
    /\ LET memoTrim == trim(memo)
       IN  IF memoTrim = <<>>
           THEN /\ alertMsg' = EmptyMemoAlert
                /\ UNCHANGED <<inputVars, memo, history, loadingHistory, mounted,
                               nextId, storeVars>>
           ELSE /\ nextId <= MaxIds
                /\ history' = Prepend(newItem, history)
                /\ memo' = <<>>
                /\ nextId' = nextId + 1
                /\ calls' = IF supabase
                            THEN calls \cup {Call("insert", nextId, InsertRow(newItem))}
                            ELSE calls
                /\ alertMsg' = ""
                /\ UNCHANGED <<inputVars, loadingHistory, mounted, supabase, table>>
    /\ Rerender

deleteHistory(id) ==
    /\ mounted
    /\ id \in Ids(history)
    /\ history' = FilterOut(history, id)
    /\ calls' = IF supabase THEN calls \cup {Call("delete", id, NoRow)} ELSE calls
    /\ alertMsg' = ""
    /\ UNCHANGED <<inputVars, memo, loadingHistory, mounted, nextId, supabase, table>>
    /\ Rerender

\* clearing that also deletes every listed record from the store
clearHistory_DeleteAll ==
    /\ mounted
    /\ history' = <<>>
    /\ calls' = IF supabase
                THEN calls \cup {Call("delete", id, NoRow) : id \in Ids(history)}
                ELSE calls
    /\ alertMsg' = ""
    /\ UNCHANGED <<inputVars, memo, loadingHistory, mounted, nextId, supabase, table>>
    /\ Rerender
clearHistory ==
    /\ mounted
    /\ history' = <<>>
    /\ alertMsg' = ""
    /\ UNCHANGED <<inputVars, memo, loadingHistory, mounted, nextId, storeVars>>
    /\ Rerender

\* the insert reaches the table, or fails on the way; saveHistory resumes
InsertResolve(c, outcome) ==
    /\ c \in Pending /\ c.op = "insert"
    /\ LET ok == outcome = "ok" /\ c.id \notin RowIds(table)
       IN  /\ table' = IF ok THEN table \cup {c.row} ELSE table
           /\ calls' = (calls \ {c}) \cup {[c EXCEPT !.state = IF ok THEN "ok" ELSE "error"]}
           /\ history' = IF ok THEN history ELSE AfterInsertError(history, c.id)
    /\ UNCHANGED <<inputVars, memo, loadingHistory, mounted, alertMsg, nextId, supabase>>
    /\ Rerender

\* the delete reaches the table, or fails on the way; deleteHistory resumes
DeleteResolve(c, outcome) ==
    /\ c \in Pending /\ c.op = "delete"
    /\ LET ok == outcome = "ok"
       IN  /\ table' = IF ok THEN {r \in table : r.id # c.id} ELSE table
           /\ calls' = (calls \ {c}) \cup {[c EXCEPT !.state = IF ok THEN "ok" ELSE "error"]}
           /\ history' = IF ok THEN history ELSE AfterDeleteError(history, c.id)
    /\ UNCHANGED <<inputVars, memo, loadingHistory, mounted, alertMsg, nextId, supabase>>
    /\ Rerender

-----------------------------------------------------------------------------
(* The full specification: a session that edits, saves, deletes and clears, *)
(* with the store configured or not, its calls succeeding or failing        *)

MemoTexts == {<<" ">>, <<" ", "a">>}
SessionBasePrices == {Won(100000)}

Next ==
    \/ InitialLoad
    \/ \E s \in MemoTexts : SetMemo(s)
    \/ \E v \in SessionBasePrices : SetBasePrice(v)
    \/ saveHistory
    \/ \E id \in Ids(history) : deleteHistory(id)
    \/ clearHistory
    \/ \E c \in calls, o \in {"ok", "error"} : InsertResolve(c, o)
    \/ \E c \in calls, o \in {"ok", "error"} : DeleteResolve(c, o)

Spec == Init /\ [][Next]_vars

-----------------------------------------------------------------------------
(* The local specification: the store is not configured (local development); *)
(* the session prices an item, saves it and looks at the history rows        *)

LocalExtras == {Won(10)}
LocalPoizonTexts == {<<>>, <<"0">>, <<"6", "6", "0", "0", "0">>}

InitLocal == Init /\ ~supabase

NextLocal ==
    \/ InitialLoad
    \/ \E s \in MemoTexts : SetMemo(s)
    \/ \E v \in SessionBasePrices : SetBasePrice(v)
    \/ \E v \in LocalExtras : SetExtra(v)
    \/ \E s \in LocalPoizonTexts : PoizonPriceChange(s)
    \/ saveHistory
    \/ \E id \in Ids(history) : deleteHistory(id)
    \/ clearHistory

SpecLocal == InitLocal /\ [][NextLocal]_vars

-----------------------------------------------------------------------------
(* What the cards and the history rows show *)

\* `${krw(m)} (${(m / (fin || 1) * 100).toFixed(1)}%)`: the amount text and the
\* percentage m / (fin || 1) * 100, kept exact as numerator n over denominator d
MarginCell(m, fin) ==
    LET den == OrElse(fin, Won(1))
    IN  [amount |-> krw(m),
         percent |-> IF IsNum(m) /\ IsNum(den)
                     THEN [t |-> "percent", n |-> m.v, d |-> den.v]
                     ELSE [t |-> "NaN", n |-> 0, d |-> 1]]
DashCell == [amount |-> <<"-">>, percent |-> [t |-> "none", n |-> 0, d |-> 1]]

resultPoizonMargin ==
    IF poizonNet # undefined
    THEN MarginCell(Add(Sub(poizonNet, final), refund10), final) ELSE DashCell
resultKreamMargin ==
    IF kreamNet # undefined THEN MarginCell(Sub(kreamNet, final), final) ELSE DashCell
chipPoizonMargin ==
    IF poizonNet # undefined
    THEN MarginCell(Add(Sub(poizonNet, final), refund10), final) ELSE DashCell
chipKreamMargin ==
    IF kreamNet # undefined THEN MarginCell(Sub(kreamNet, final), final) ELSE DashCell
rowKreamMargin(h) ==
    IF h.kreamNet # undefined THEN MarginCell(Sub(h.kreamNet, h.final), h.final)
    ELSE DashCell
rowPoizonMargin(h) ==
    IF h.poizonNet # undefined THEN MarginCell(Sub(h.poizonNet, h.final), h.final)
    ELSE DashCell

\* the price cells of a history row: a truthiness test, so 0 takes the "-" branch
Truthy(x) == IsNum(x) /\ x.v # 0
rowKreamPrice(h) == IF Truthy(h.kreamPrice) THEN krw(h.kreamPrice) ELSE <<"-">>
rowPoizonPrice(h) == IF Truthy(h.poizonPrice) THEN krw(h.poizonPrice) ELSE <<"-">>

\* the price fields alone, with texts of every shape: no digit, zero, leading
\* zeros, grouped digits, and twenty-two digits (1e21 and 1.5e21)
FormatTexts ==
    {<<>>, <<"a">>, <<"0">>, <<"0", "0", "7">>, <<"6", "5", ",", "0", "0", "0">>,
     <<"1">> \o Zeros(21), <<"1", "5">> \o Zeros(20)}

NextFormat ==
    \/ InitialLoad
    \/ \E s \in FormatTexts : KreamPriceChange(s)
    \/ \E s \in FormatTexts : PoizonPriceChange(s)

SpecFormat == Init /\ [][NextFormat]_vars

-----------------------------------------------------------------------------
(* Properties *)

\* what a save with the label as it is may not fail to do when it is rejected
Rejected ==
    /\ alertMsg' = EmptyMemoAlert
    /\ UNCHANGED <<inputVars, memo, history, nextId, storeVars>>

\* C1: while the label is empty or only whitespace, saving is rejected: it
\* raises the notice and leaves the history list, the label, every pricing
\* input, the table and the set of store calls (no insert is sent) as they were.
C1_EmptyLabelRejected ==
    (mounted /\ \A i \in DOMAIN memo : IsSpace(memo[i])) =>
        /\ ENABLED (saveHistory /\ Rejected)
        /\ ~ENABLED (saveHistory /\ ~Rejected)
C1_Witness ==
    /\ alertMsg = EmptyMemoAlert
    /\ memo = <<" ">>
    /\ Len(history) = 1
    /\ supabase

\* a save that is accepted puts exactly one new item, with an id never used, first
Prepended ==
    /\ Len(history') = Len(history) + 1
    /\ Tail(history') = history
    /\ Head(history').id \notin Ids(history) \cup RowIds(table) \cup {c.id : c \in calls}

\* C2: with a non-empty label, saving prepends exactly one new record with a
\* fresh id (the list grows by one, the new record first, the earlier ones in
\* their order), and no two records of the list ever share an id.
C2_SavePrependsFresh ==
    /\ \A i, j \in DOMAIN history : i # j => history[i].id # history[j].id
    /\ (mounted /\ nextId <= MaxIds /\ \E i \in DOMAIN memo : ~IsSpace(memo[i])) =>
           /\ ENABLED (saveHistory /\ Prepended)
           /\ ~ENABLED (saveHistory /\ ~Prepended)
C2_Witness ==
    /\ Len(history) = 2
    /\ history[1].id = 2
    /\ history[2].id = 1

\* C3: once every store call has completed successfully, a record whose delete
\* was issued is in neither the in-memory list nor the table.
C3_DeletedEverywhere ==
    (supabase /\ \A d \in calls : d.state = "ok") =>
        \A c \in calls :
            c.op = "delete" => c.id \notin Ids(history) /\ c.id \notin RowIds(table)

\* C4: the list is updated in the step that issues the store call, before the
\* call resolves; no resolution of a call, failed or not, changes the list (a
\* failed insert does not remove the record, a failed delete does not restore
\* it); without a configured store no call is issued and the list changes the
\* same way.
C4_OptimisticNoRollback ==
    [][/\ (\E c \in Pending : c \notin calls') => history' = history
       /\ \A c \in {n \in calls' \ calls : n.state = "pending"} :
              /\ c.op = "insert" =>
                     /\ history' = <<Head(history')>> \o history
                     /\ Head(history').id = c.id
              /\ c.op = "delete" =>
                     /\ c.id \in Ids(history)
                     /\ c.id \notin Ids(history')
                     /\ Len(history') = Len(history) - 1
       /\ ~supabase => calls' = {}]_vars
C4_Witness ==
    /\ \E c \in calls : c.op = "insert" /\ c.state = "error" /\ c.id \in Ids(history)
    /\ \E c \in calls : c.op = "delete" /\ c.state = "error" /\ c.id \notin Ids(history)

\* C5: with the store configured, the initial load lists the table and the
\* persisted records are then in the in-memory list, newest first.
C5_InitialLoadFetches ==
    [][(~mounted /\ mounted' /\ supabase) =>
           history' = dbFetchHistory(100, "ok").data]_vars

\* C6: after any sequence of input changes every derived value the render holds
\* equals a from-scratch computation over the current inputs.
C6_MemoEqualsCold ==
    LET s2 == step2AfterFirstDiscount(basePrice, discountMode, baseDiscountAmount,
                                      baseDiscountPercent)
        fin == applyExtraPercent(s2, extra)
        tax == simpleRefund10(fin)
        kn == kreamNetFromPrice(kreamPrice)
        pn == poizonNetFromPrice(poizonPrice)
    IN  /\ step2 = s2
        /\ final = fin
        /\ refund10 = tax
        /\ afterRefund10 = MathMax(Won(0), Sub(fin, tax))
        /\ kreamNet = kn
        /\ kreamFee = kreamFeeFromPrice(kreamPrice, kn)
        /\ poizonNet = pn
        /\ poizonFee = poizonFeeFromPrice(poizonPrice, pn)
C6_Witness ==
    /\ discountMode = "percent"
    /\ basePrice = Won(100000)
    /\ baseDiscountAmount = Won(20000)
    /\ baseDiscountPercent = Won(10)
    /\ extra = Won(10)
    /\ step2 = Won(90000)
    /\ final = Won(81000)
    /\ poizonNet = Won(51000)
    /\ kreamNet = Won(56640)

\* C7: a record of the list never changes: across every step, a record that is
\* still in the list has the field values it had before the step.
C7_RecordsImmutable ==
    [][\A i \in DOMAIN history, j \in DOMAIN history' :
           history[i].id = history'[j].id => history[i] = history'[j]]_vars
C7_Witness ==
    /\ Len(history) = 1
    /\ nextId = 3
    /\ history[1].basePrice = undefined
    /\ basePrice = Won(100000)

\* C8: with a base price entered, first-discounted price, final price, tax and
\* after-tax are numbers even when amount, percent or extra were never entered;
\* with no base price entered all four are shown as "-".
C8_MissingInputsDefaulted ==
    /\ IsNum(basePrice) =>
           IsNum(step2) /\ IsNum(final) /\ IsNum(refund10) /\ IsNum(afterRefund10)
    /\ basePrice = undefined =>
           /\ krw(step2) = <<"-">> /\ krw(final) = <<"-">>
           /\ krw(refund10) = <<"-">> /\ krw(afterRefund10) = <<"-">>

\* C9: every Poizon margin shown (result card, input chips, history rows) is
\* net - final + tax and every Kream margin shown is net - final, with the
\* percentage margin / final * 100, final taken as 1 when it is 0.
C9_MarginsEverywhere ==
    /\ poizonNet # undefined =>
           /\ resultPoizonMargin = MarginCell(Add(Sub(poizonNet, final), refund10), final)
           /\ chipPoizonMargin = MarginCell(Add(Sub(poizonNet, final), refund10), final)
    /\ kreamNet # undefined =>
           /\ resultKreamMargin = MarginCell(Sub(kreamNet, final), final)
           /\ chipKreamMargin = MarginCell(Sub(kreamNet, final), final)
    /\ \A i \in DOMAIN history :
           LET h == history[i]
           IN  /\ h.poizonNet # undefined =>
                      rowPoizonMargin(h) =
                          MarginCell(Add(Sub(h.poizonNet, h.final), h.refund10), h.final)
               /\ h.kreamNet # undefined =>
                      rowKreamMargin(h) = MarginCell(Sub(h.kreamNet, h.final), h.final)

\* C10: for a base price B >= 0, the first-discounted price is
\* max(0, B - clamp(A, 0, B)) in amount mode (a missing A is 0) and
\* B * (1 - clamp(P, 0, 100) / 100) in percent mode, and lies in [0, B].
\* (B / 100 is exact: the base prices drawn are multiples of 100.)
C10_FirstDiscount ==
    (IsNum(basePrice) /\ basePrice.v >= 0) =>
        LET B == basePrice.v
            A == IF baseDiscountAmount = undefined THEN 0 ELSE baseDiscountAmount.v
            cA == IF A < 0 THEN 0 ELSE IF A > B THEN B ELSE A
            P == IF baseDiscountPercent = undefined THEN 0 ELSE baseDiscountPercent.v
            cP == IF P < 0 THEN 0 ELSE IF P > 100 * Milli THEN 100 * Milli ELSE P
        IN  /\ IsNum(step2)
            /\ discountMode = "amount" =>
                   step2.v = (IF B - cA > 0 THEN B - cA ELSE 0)
            /\ discountMode = "percent" =>
                   step2.v = (B \div (100 * Milli)) * (100 * Milli - cP)
            /\ 0 <= step2.v /\ step2.v <= B
C10_Witness ==
    /\ basePrice = Won(100000)
    /\ \/ discountMode = "amount" /\ baseDiscountAmount = Won(-5000)
          /\ step2 = Won(100000)
       \/ discountMode = "percent" /\ baseDiscountPercent = Won(120) /\ step2 = Won(0)

\* C11: for a first-discounted price S and an extra percent e,
\* final = S * (1 - clamp(e, 0, 100) / 100), tax = final * 0.1 and
\* after-tax = max(0, final - tax); base 100,000 with amount discount 20,000
\* and extra 10 gives 80,000, 72,000, 7,200 and 64,800.
\* (S / 100 is exact: the first-discounted prices reached are multiples of 100.)
C11_ExtraTaxAfterTax ==
    /\ (IsNum(step2) /\ IsNum(extra)) =>
           LET S == step2.v
               e == extra.v
               cE == IF e < 0 THEN 0 ELSE IF e > 100 * Milli THEN 100 * Milli ELSE e
           IN  /\ IsNum(final) /\ IsNum(refund10) /\ IsNum(afterRefund10)
               /\ final.v = (S \div (100 * Milli)) * (100 * Milli - cE)
               /\ refund10.v * 10 = final.v
               /\ afterRefund10.v =
                      (IF final.v - refund10.v > 0 THEN final.v - refund10.v ELSE 0)
    /\ (/\ basePrice = Won(100000) /\ discountMode = "amount"
        /\ baseDiscountAmount = Won(20000) /\ extra = Won(10)) =>
           /\ step2 = Won(80000) /\ final = Won(72000)
           /\ refund10 = Won(7200) /\ afterRefund10 = Won(64800)
C11_Witness ==
    /\ basePrice = Won(100000) /\ discountMode = "amount"
    /\ baseDiscountAmount = Won(20000) /\ extra = Won(10)
    /\ final = Won(72000) /\ afterRefund10 = Won(64800)

\* C12: the Poizon net is p - 15,000 for p <= 150,000, p - 45,000 for
\* p >= 450,000 and p * 0.9 in between, the fee is p - net; the pieces meet at
\* 150,000 (135,000) and 450,000 (405,000); net(300,000) = 270,000 and
\* net(66,000) = 51,000 with fee 15,000.
C12_PoizonPiecewise ==
    /\ IsNum(poizonPrice) =>
           LET p == poizonPrice.v
           IN  /\ IsNum(poizonNet) /\ IsNum(poizonFee)
               /\ p <= 150000 * Milli => poizonNet.v = p - 15000 * Milli
               /\ p >= 450000 * Milli => poizonNet.v = p - 45000 * Milli
               /\ (p > 150000 * Milli /\ p < 450000 * Milli) =>
                      poizonNet.v = (p \div 10) * 9
               /\ poizonFee.v = p - poizonNet.v
               /\ p \in {150000 * Milli, 450000 * Milli} =>
                      poizonNet.v = (p \div 10) * 9
    /\ poizonPrice = Won(150000) => poizonNet = Won(135000)
    /\ poizonPrice = Won(450000) => poizonNet = Won(405000)
    /\ poizonPrice = Won(300000) => poizonNet = Won(270000)
    /\ poizonPrice = Won(66000) => poizonNet = Won(51000) /\ poizonFee = Won(15000)
C12_Witness ==
    /\ poizonPrice = Won(300000)
    /\ poizonNet = Won(270000)
    /\ poizonFee = Won(30000)

\* C13: the Kream net is p * 0.956 - 5,500 and the fee p - net, so that
\* net + fee = p; for p = 65,000 the net is 56,640 and the fee 8,360.
C13_KreamNetFee ==
    /\ IsNum(kreamPrice) =>
           LET p == kreamPrice.v
           IN  /\ IsNum(kreamNet) /\ IsNum(kreamFee)
               /\ kreamNet.v = (p \div 1000) * 956 - 5500 * Milli
               /\ kreamFee.v = p - kreamNet.v
               /\ kreamNet.v + kreamFee.v = p
    /\ kreamPrice = Won(65000) => kreamNet = Won(56640) /\ kreamFee = Won(8360)
C13_Witness ==
    /\ kreamPrice = Won(65000)
    /\ kreamNet = Won(56640)
    /\ kreamFee = Won(8360)

\* C14: the absent/zero distinction of a platform price is kept at every
\* stage: a field text without digits gives an absent price with absent net,
\* fee and margin; the text "0" gives the number 0 with numeric net and fee;
\* a saved record keeps the distinction for its price, net and fee, and its
\* history row shows "-" for an absent price or margin only.
C14_AbsentZeroDistinct ==
    /\ OnlyDigits(poizonPriceInput) = <<>> =>
           /\ poizonPrice = undefined /\ poizonNet = undefined /\ poizonFee = undefined
           /\ resultPoizonMargin = DashCell /\ chipPoizonMargin = DashCell
    /\ OnlyDigits(kreamPriceInput) = <<>> =>
           /\ kreamPrice = undefined /\ kreamNet = undefined /\ kreamFee = undefined
           /\ resultKreamMargin = DashCell /\ chipKreamMargin = DashCell
    /\ poizonPriceInput = <<"0">> =>
           poizonPrice = Won(0) /\ IsNum(poizonNet) /\ IsNum(poizonFee)
    /\ kreamPriceInput = <<"0">> =>
           kreamPrice = Won(0) /\ IsNum(kreamNet) /\ IsNum(kreamFee)
    /\ \A i \in DOMAIN history :
           LET h == history[i]
           IN  /\ h.poizonPrice = undefined =>
                      /\ h.poizonNet = undefined /\ h.poizonFee = undefined
                      /\ rowPoizonPrice(h) = <<"-">> /\ rowPoizonMargin(h) = DashCell
               /\ h.kreamPrice = undefined =>
                      /\ h.kreamNet = undefined /\ h.kreamFee = undefined
                      /\ rowKreamPrice(h) = <<"-">> /\ rowKreamMargin(h) = DashCell
               /\ IsNum(h.poizonPrice) =>
                      /\ IsNum(h.poizonNet) /\ IsNum(h.poizonFee)
                      /\ rowPoizonPrice(h) # <<"-">> /\ rowPoizonMargin(h) # DashCell
               /\ IsNum(h.kreamPrice) =>
                      /\ IsNum(h.kreamNet) /\ IsNum(h.kreamFee)
                      /\ rowKreamPrice(h) # <<"-">> /\ rowKreamMargin(h) # DashCell

\* C15: parsing, formatting the parsed number's string and parsing again gives
\* the same number for every text with at least one digit, and formatting a
\* text without digits gives the empty text; stated of the texts the two
\* price fields hold.
C15_ParseFormatParse ==
    \A s \in {kreamPriceInput, poizonPriceInput} :
        /\ OnlyDigits(s) # <<>> =>
               parseNumberInput(formatNumberInput(String(parseNumberInput(s))))
                   = parseNumberInput(s)
        /\ OnlyDigits(s) = <<>> => formatNumberInput(s) = <<>>

\* C16: every record of the in-memory history is self-consistent: the stored
\* discount is the clamped value of the active mode only (amount in
\* [0, basePrice] with percent absent, or percent in [0, 100] with amount
\* absent), the stored extra is in [0, 100], the stored final is the discount
\* chain applied to the record's own base price, mode, discount and extra, and
\* the stored tax is 10% of the stored final.
C16_RecordsSelfConsistent ==
    \A i \in DOMAIN history :
        LET h == history[i]
        IN  /\ h.discountMode = "amount" =>
                   /\ h.baseDiscountPercent = undefined
                   /\ Le(Won(0), h.baseDiscountAmount)
                   /\ Le(h.baseDiscountAmount, h.basePrice)
            /\ h.discountMode = "percent" =>
                   /\ h.baseDiscountAmount = undefined
                   /\ Le(Won(0), h.baseDiscountPercent)
                   /\ Le(h.baseDiscountPercent, Won(100))
            /\ Le(Won(0), h.extra) /\ Le(h.extra, Won(100))
            /\ IsNum(h.final)
            /\ h.final =
                   applyExtraPercent(
                       step2AfterFirstDiscount(h.basePrice, h.discountMode,
                                               h.baseDiscountAmount,
                                               h.baseDiscountPercent),
                       h.extra)
            /\ h.refund10 = simpleRefund10(h.final)

\* what clearing the history does and leaves alone
Cleared ==
    /\ history' = <<>>
    /\ calls' = calls /\ table' = table /\ supabase' = supabase
    /\ memo' = memo
    /\ UNCHANGED inputVars

\* C17: clearing the history empties the in-memory list only: no call is
\* sent to the store, the persisted rows stay, and the memo and all pricing
\* inputs are unchanged.
C17_ClearIsLocal ==
    mounted =>
        /\ ENABLED (clearHistory /\ Cleared)
        /\ ~ENABLED (clearHistory /\ ~Cleared)
\* a record saved and persisted in this session is still in the table after
\* the list was cleared, and no delete was ever sent
C17_Witness ==
    /\ mounted /\ history = <<>>
    /\ \E r \in table : r.id >= 1
    /\ \A c \in calls : c.op # "delete"

====
